---- MODULE Spec2Model ----
(***************************************************************************)
(* ChronoTask Pro (src/src/App.jsx): the due-date reminder loop of         *)
(* useEnhancedNotifications, the in-memory set of already notified         *)
(* (task, level) keys it keeps in notifiedTasksRef, and the task-list      *)
(* operations of TodoApp that feed it.                                     *)
(*                                                                         *)
(* Time is the millisecond clock of Date; a due date is the millisecond    *)
(* value new Date(task.dueUtc) parses from the stored ISO string.          *)
(***************************************************************************)
EXTENDS Integers, Sequences, FiniteSets, TLC

VARIABLES
    now,            \* new Date(): the wall clock, in ms
    tasks,          \* TodoApp's tasks state (useLocalStorage), newest first
    permission,     \* the permission state of useEnhancedNotifications' own useIOSNotifications
    notifiedTasks,  \* notifiedTasksRef.current: the Set of notification keys
    dispatched,     \* every showNotification call of checkNotifications, in call order
    effectPending,  \* a render changed the deps of the reminder effect and it has not run yet
    idCounter,      \* how many ids genId has produced in this session
    deletedIds,     \* history: the ids deleteTask was called with
    mounted,        \* TodoApp is mounted (an error thrown by an effect unmounts it)
    notificationCheck, \* notificationCheckRef.current: the last interval id, 0 for null
    timers,         \* the intervals setInterval made that no clearInterval has cleared:
                    \* id, the activeTasks of the closure, ms since creation or last call
    cleanupSet,     \* React holds the cleanup the effect returned
    lastOp,         \* history: the operation that produced this state, the task id it was
                    \* given and, for checkNotifications, how many reminders it dispatched
    notificationPermission, \* the permission state of TodoApp's own useIOSNotifications
    history,        \* how many entries the list stored under HISTORY_STORAGE_KEY has
    reader,         \* the FileReader of an import that has not loaded yet, with the
                    \* storedValue its setTasks closes over
    cacheStorage,   \* sw.js: the caches of the origin, cache name -> the URLs it holds
    worker          \* sw.js: the lifecycle of the service worker and its pending promises

swVars == <<cacheStorage, worker>>

appVars == <<now, tasks, permission, notifiedTasks, dispatched, effectPending, idCounter,
             deletedIds, mounted, notificationCheck, timers, cleanupSet, lastOp,
             notificationPermission, history, reader>>

vars == <<now, tasks, permission, notifiedTasks, dispatched, effectPending, idCounter,
          deletedIds, mounted, notificationCheck, timers, cleanupSet, lastOp,
          notificationPermission, history, reader, cacheStorage, worker>>

----------------------------------------------------------------------------
(* Bounds of the model *)

\* clock positions per minute: the clock moves in steps of MsPerMinute \div StepsPerMinute
StepsPerMinute == 2
\* the unrestricted specification follows the clock for this many minutes
MaxMinutes == 2
\* entries the task list may hold
MaxTasks == 2
\* notifications a run may dispatch
MaxDispatched == 2
\* ids genId may produce in a session
MaxGenerated == 1

(* Program constants *)
MsPerMinute == 60000

StepMs == MsPerMinute \div StepsPerMinute

\* task.dueUtc: an ISO string that new Date parses to ms, null, or a string that parses to NaN
Due(ms) == [kind |-> "date", ms |-> ms]
Null == [kind |-> "null", ms |-> 0]
Invalid == [kind |-> "invalid", ms |-> 0]

NOTIFICATION_LEVELS ==
    << [hours |-> <<5, 1>>,   label |-> "5 hours"],
       [hours |-> <<2, 1>>,   label |-> "2 hours"],
       [hours |-> <<1, 1>>,   label |-> "1 hour"],
       [hours |-> <<1, 2>>,   label |-> "30 minutes"],
       [hours |-> <<10, 60>>, label |-> "10 minutes"] >>

Permissions == {"default", "granted", "denied"}

----------------------------------------------------------------------------
(* checkNotifications *)

\* mutant: the fraction of an hour is lost (Math.floor(level.hours) * 60)
ThresholdMinutes_WholeHours(level) == (level.hours[1] \div level.hours[2]) * 60

\* level.hours * 60
ThresholdMinutes(level) == (level.hours[1] * 60) \div level.hours[2]

Digits == <<"0", "1", "2", "3", "4", "5", "6", "7", "8", "9">>

\* a natural number in a template literal: its decimal digits
RECURSIVE IntToText(_)
IntToText(n) == IF n < 10 THEN Digits[n + 1] ELSE IntToText(n \div 10) \o Digits[(n % 10) + 1]

\* `${level.hours}`: the number as JavaScript prints it. 0.5 and 10 / 60 are the two
\* configured values that are not whole; the double 10 / 60 prints with 17 digits
NumberToString(hours) ==
    CASE hours[1] % hours[2] = 0 -> IntToText(hours[1] \div hours[2])
      [] 2 * hours[1] = hours[2] -> "0.5"
      [] 6 * hours[1] = hours[2] -> "0.16666666666666666"

\* mutant: the key leaves the task id out (`task-${level.hours}`)
NotificationKey_NoId(id, level) == "task-" \o NumberToString(level.hours)

\* mutant: the key is made of the threshold in minutes (`task-${task.id}-${thresholdMinutes}`)
NotificationKey_Minutes(id, level) ==
    "task-" \o id \o "-" \o IntToText(ThresholdMinutes(level))

\* `task-${task.id}-${level.hours}`
NotificationKey(id, level) == "task-" \o id \o "-" \o NumberToString(level.hours)

\* Math.floor((dueDate - now) / (1000 * 60))
MinutesLeft(dueUtc, t) == (dueUtc - t) \div MsPerMinute

\* mutant: the lower edge of the band is off by one (>= for >)
InWindow_LowerInclusive(minutesLeft, thresholdMinutes) ==
    minutesLeft <= thresholdMinutes /\ minutesLeft >= thresholdMinutes - 1

\* mutant: the lower edge of the band is lost
InWindow_NoLowerEdge(minutesLeft, thresholdMinutes) == minutesLeft <= thresholdMinutes

\* mutant: a threshold stays in window for half an hour
InWindow_HalfHour(minutesLeft, thresholdMinutes) ==
    minutesLeft <= thresholdMinutes /\ minutesLeft > thresholdMinutes - 30

\* minutesLeft <= thresholdMinutes && minutesLeft > thresholdMinutes - 1
InWindow(minutesLeft, thresholdMinutes) ==
    minutesLeft <= thresholdMinutes /\ minutesLeft > thresholdMinutes - 1

\* mutant: the has() test is lost
AlreadyNotified_Never(led, key) == FALSE

\* notifiedTasksRef.current.has(notificationKey)
AlreadyNotified(led, key) == key \in led

\* mutant: the cutoff is taken in seconds
NeedsCleanup_Seconds(minutesLeft) == minutesLeft > 5 * 60 * 60

\* mutant: the cutoff is 5 minutes (the * 60 is lost)
NeedsCleanup_Minutes(minutesLeft) == minutesLeft > 5

\* mutant: the cutoff includes the largest threshold (>= for >)
NeedsCleanup_AtCutoff(minutesLeft) == minutesLeft >= 5 * 60

\* if (minutesLeft > 5 * 60)
NeedsCleanup(minutesLeft) == minutesLeft > 5 * 60

\* what the platform does with the n-th `new Notification(...)` of a tick: it throws when
\* n = failAt (failAt = 0: none throws), and shows nothing when it is silent
Platform(failAt, silent) == [failAt |-> failAt, silent |-> silent]
Works == Platform(0, FALSE)

\* showNotification: null without permission, else new Notification(title, options)
ShowNotification(p, platform, n) ==
    IF p # "granted" THEN "null"
    ELSE IF n = platform.failAt THEN "throws"
    ELSE IF platform.silent THEN "undelivered" ELSE "shown"

\* the state of a tick: the ledger, the showNotification calls so far, whether one threw,
\* and the closure's permission and the platform
TickState(led, p, platform) ==
    [led |-> led, out |-> <<>>, threw |-> FALSE, permission |-> p, platform |-> platform]

\* the keys the cleanup loop deletes for one task
KeysOf(id) == { NotificationKey(id, NOTIFICATION_LEVELS[k]) : k \in DOMAIN NOTIFICATION_LEVELS }

\* the notification showNotification is called with
Reminder(task, level, minutesLeft) ==
    [ tag |-> NotificationKey(task.id, level),
      taskId |-> task.id,
      level |-> level.label,
      due |-> task.dueUtc,              \* body: `Due: ${getBangladeshTime(task.dueUtc)}...`
      minutesLeft |-> minutesLeft,      \* history: what the tick observed
      outcome |-> "shown" ]             \* history: what the call did

\* NOTIFICATION_LEVELS.forEach((level) => ...) from level k on; st = [led, out]
RECURSIVE CheckLevels(_, _, _, _)
CheckLevels(task, minutesLeft, k, st) ==
    IF k > Len(NOTIFICATION_LEVELS) THEN st
    ELSE LET level == NOTIFICATION_LEVELS[k]
             key == NotificationKey(task.id, level)
             call == ShowNotification(st.permission, st.platform, Len(st.out) + 1)
             sent == Append(st.out, [Reminder(task, level, minutesLeft) EXCEPT !.outcome = call])
         IN IF st.threw THEN st
            ELSE IF InWindow(minutesLeft, ThresholdMinutes(level)) /\ ~AlreadyNotified(st.led, key)
            THEN IF call = "throws"
                 THEN [ st EXCEPT !.out = sent, !.threw = TRUE ]   \* add() is not reached
                 ELSE CheckLevels(task, minutesLeft, k + 1,
                          [ st EXCEPT !.led = st.led \cup {key}, !.out = sent ])
            ELSE CheckLevels(task, minutesLeft, k + 1, st)

\* mutant: the cleanup empties the whole set (notifiedTasksRef.current.clear())
CleanUp_ClearAll(task, minutesLeft, st) ==
    IF ~st.threw /\ NeedsCleanup(minutesLeft) THEN [ st EXCEPT !.led = {} ] ELSE st

\* "Clean up old notifications"
CleanUp(task, minutesLeft, st) ==
    IF ~st.threw /\ NeedsCleanup(minutesLeft)
    THEN [ st EXCEPT !.led = st.led \ KeysOf(task.id) ]
    ELSE st

\* mutant: a due date that does not parse raises an error in the tick
CheckTask_InvalidThrows(task, t, st) ==
    IF st.threw THEN st
    ELSE IF task.dueUtc = Null THEN st
    ELSE IF task.dueUtc = Invalid THEN [ st EXCEPT !.threw = TRUE ]
    ELSE LET minutesLeft == MinutesLeft(task.dueUtc.ms, t)
         IN CleanUp(task, minutesLeft, CheckLevels(task, minutesLeft, 1, st))

\* the body of activeTasks.forEach((task) => ...) for one task
CheckTask(task, t, st) ==
    IF st.threw THEN st                       \* the exception has left forEach
    ELSE IF task.dueUtc = Null THEN st             \* if (task.dueUtc): null is falsy
    ELSE IF task.dueUtc = Invalid THEN st     \* minutesLeft is NaN: every comparison is false
    ELSE LET minutesLeft == MinutesLeft(task.dueUtc.ms, t)
         IN CleanUp(task, minutesLeft, CheckLevels(task, minutesLeft, 1, st))

\* activeTasks.forEach from entry i on
RECURSIVE CheckFrom(_, _, _, _)
CheckFrom(active, t, i, st) ==
    IF i > Len(active) THEN st
    ELSE CheckFrom(active, t, i + 1, CheckTask(active[i], t, st))

\* checkNotifications of an effect run whose closure holds active and permission p
CheckNotifications(active, t, led, p, platform) ==
    CheckFrom(active, t, 1, TickState(led, p, platform))

\* mutant: only a denied permission stops the effect (permission !== "denied")
Granted_NotDenied(p) == p # "denied"

\* the guard of the effect: if (permission !== "granted") return
Granted(p) == p = "granted"

\* mutant: completed tasks are not filtered out
ActiveTasks_All(ts) == ts

\* tasks.filter((task) => !task.completed)
ActiveTasks(ts) == SelectSeq(ts, LAMBDA task : ~task.completed)

----------------------------------------------------------------------------
(* Inputs *)

\* ids of tasks created in earlier sessions (stored, or in a backup file)
StoredIds == {"a"}

\* crypto.randomUUID(): the n-th id of this session, different from every other id
GenId(n) == <<"g1", "g2", "g3">>[n]

\* due dates, as minutes after the start of the run: on a clock position, or between two
WholeDue(m) == Due(m * MsPerMinute)
HalfDue(m) == Due(m * MsPerMinute + StepMs)

\* the due dates a user enters: soon overdue, soon 10 minutes ahead, soon 5 hours ahead, none
DueChoices == { WholeDue(1), HalfDue(11), WholeDue(302), Null }

Task(id, dueUtc, completed) == [id |-> id, dueUtc |-> dueUtc, completed |-> completed]

\* what localStorage holds when the application starts
StoredTaskLists == { <<>> } \cup { <<Task("a", d, FALSE)>> : d \in DueChoices }

\* backup files offered to importJson: the tasks array of the file
ImportFiles == { <<Task(id, d, FALSE)>> : id \in StoredIds, d \in DueChoices }

Op(name, id) == [op |-> name, id |-> id, n |-> 0]

----------------------------------------------------------------------------
(* The application *)

\* mutant: the Set of the session before is read back when the page loads
FreshLedger_Restored(before) == before

\* useRef(new Set()) in the first render of a session: nothing of the session before
FreshLedger(before) == {}

\* existing.slice(0, 499), and slice(0, 499) of the merged history of an import
HistoryKept == 499

Min(a, b) == IF a <= b THEN a ELSE b

\* mutant: the new entry is put before 500 kept entries
AddToHistory_Keep500(h) == Min(h, HistoryKept + 1) + 1

\* addToHistory: [historyEntry, ...existing.slice(0, 499)], on the length of the list
AddToHistory(h) == Min(h, HistoryKept) + 1

\* n calls of addToHistory
RECURSIVE AddEntries(_, _)
AddEntries(h, n) == IF n = 0 THEN h ELSE AddEntries(AddToHistory(h), n - 1)

\* no import is being read
NoRead == [busy |-> FALSE, file |-> <<>>, history |-> -1, storedValue |-> <<>>]

\* sw.js before any of its events: no cache of the origin, the script just evaluated
NoCaches == [name \in {} |-> {}]
Parsed == [state |-> "parsed", step |-> "idle", keys |-> {}, pending |-> {},
           claimed |-> FALSE]

\* TodoApp after its first render, showing the stored list ts, with h entries of stored
\* history
PageLoaded(ts, h) ==
    /\ notificationPermission = "default"
    /\ history = h
    /\ reader = NoRead
    /\ now = 0
    /\ tasks = ts
    /\ permission = "default"
    /\ notifiedTasks = FreshLedger({})
    /\ dispatched = <<>>
    /\ effectPending = TRUE
    /\ idCounter = 0
    /\ deletedIds = {}
    /\ mounted = TRUE
    /\ notificationCheck = 0
    /\ timers = {}
    /\ cleanupSet = FALSE
    /\ lastOp = Op("mount", "")

\* a freshly loaded page, and no service worker event yet
LoadedWith(ts, h) == PageLoaded(ts, h) /\ cacheStorage = NoCaches /\ worker = Parsed

\* a freshly loaded page of an installation whose stored history is full
Loaded(ts) == LoadedWith(ts, HistoryKept + 1)

Init == \E ts \in StoredTaskLists : Loaded(ts)

\* useIOSNotifications' mount effect: setPermission(Notification.permission)
PermissionEffect(p) ==
    /\ mounted /\ ~effectPending
    /\ permission = "default" /\ notificationPermission = "default"
    /\ p # "default"
    /\ permission' = p
    /\ notificationPermission' = p
    /\ effectPending' = TRUE
    /\ lastOp' = Op("setPermission", "")
    /\ UNCHANGED <<history, reader, swVars>>
    /\ UNCHANGED <<now, tasks, notifiedTasks, dispatched, idCounter, deletedIds, mounted,
                   notificationCheck, timers, cleanupSet>>

\* mutant: every render makes a new Set (notifiedTasksRef = { current: new Set() })
NotifiedTasksRef_NewSet(current) == {}

\* useRef(new Set()): every render gets the ref object of the first, with the same Set
NotifiedTasksRef(current) == current

\* mutant: the cleanup clears nothing
ClearInterval_Never(set, ref) == set

\* the cleanup of the previous run: if (notificationCheckRef.current) clearInterval(...)

ClearInterval(set, ref) == { tm \in set : tm.id # ref }

\* what setInterval returns: an id no live interval has
FreshId(set) == CHOOSE n \in 1..(Cardinality(set) + 1) : \A tm \in set : tm.id # n

\* the state a tick of checkNotifications leaves: r is the state of the tick at its end
TickEnds(r, cap) ==
    /\ Len(dispatched) + Len(r.out) <= cap
    /\ notifiedTasks' = r.led
    /\ dispatched' = dispatched \o r.out
    /\ lastOp' = [op |-> "checkNotifications", id |-> "", n |-> Len(r.out)]

\* mutant: the effect sets the interval and leaves the first call to it
ImmediateCheck_None(r, st) == st

\* checkNotifications() right after setInterval: the tick state r its call leaves, st
\* being the state before it
ImmediateCheck(r, st) == r

\* the effect of useEnhancedNotifications: it runs after every render (showNotification
\* is a new function in each, and useLiveTime renders TodoApp every second). React runs
\* the cleanup of the previous run first; the body returns early without permission, else
\* it makes the interval, runs checkNotifications, and returns the cleanup. An exception
\* of checkNotifications leaves the body before the return and React unmounts the tree.
Effect(cap, platforms) ==
    /\ mounted
    /\ effectPending' = FALSE
    /\ LET cleared == IF cleanupSet /\ notificationCheck # 0
                      THEN ClearInterval(timers, notificationCheck) ELSE timers
       IN IF ~Granted(permission)
          THEN /\ timers' = cleared
               /\ cleanupSet' = FALSE
               /\ UNCHANGED <<notificationCheck, notifiedTasks, dispatched, lastOp, mounted>>
          ELSE \E platform \in platforms :
                 LET active == ActiveTasks(tasks)
                     st == TickState(NotifiedTasksRef(notifiedTasks), permission, platform)
                     r == ImmediateCheck(CheckFrom(active, now, 1, st), st)
                     id == FreshId(cleared)
                 IN /\ TickEnds(r, cap)
                    /\ notificationCheck' = id
                    /\ timers' = cleared \cup {[id |-> id, active |-> active, elapsed |-> 0]}
                    /\ cleanupSet' = ~r.threw
                    /\ mounted' = ~r.threw
    /\ UNCHANGED <<now, tasks, permission, idCounter, deletedIds>>
    /\ UNCHANGED <<notificationPermission, history, reader, swVars>>

\* mutant: the interval calls every two minutes
CheckEvery_TwoMinutes == 2 * MsPerMinute

\* setInterval(checkNotifications, 60000): the period of the interval
CheckEvery == MsPerMinute

\* an interval calls its checkNotifications, 60000 ms after its creation or its last
\* call; an exception ends the call and the interval stays. No timer runs between a
\* render and the effects of that render.
IntervalTick(cap, platforms) ==
    /\ ~effectPending
    /\ \E tm \in timers : \E platform \in platforms :
          LET r == CheckNotifications(tm.active, now, notifiedTasks, "granted", platform)
          IN /\ tm.elapsed >= CheckEvery
             /\ TickEnds(r, cap)
             /\ timers' = (timers \ {tm}) \cup {[tm EXCEPT !.elapsed = 0]}
    /\ UNCHANGED <<now, tasks, permission, effectPending, idCounter, deletedIds, mounted,
                   notificationCheck, cleanupSet>>
    /\ UNCHANGED <<notificationPermission, history, reader, swVars>>

\* time passes by step ms; a pending effect runs before the clock moves on
Advance(step, limit) ==
    /\ ~effectPending
    /\ now + step <= limit
    /\ now' = now + step
    /\ timers' = { [tm EXCEPT !.elapsed = IF tm.elapsed + step >= CheckEvery
                                          THEN CheckEvery ELSE tm.elapsed + step] :
                   tm \in timers }
    /\ lastOp' = Op("clock", "")
    /\ UNCHANGED <<tasks, permission, notifiedTasks, dispatched, effectPending, idCounter,
                   deletedIds, mounted, notificationCheck, cleanupSet>>
    /\ UNCHANGED <<notificationPermission, history, reader, swVars>>

\* setTasks(...) of a handler: the new list, and a render that re-runs the effect. The
\* effects of a render run before the next event is handled.
SetTasks(ts, op) ==
    /\ mounted /\ ~effectPending
    /\ tasks' = ts
    /\ effectPending' = TRUE
    /\ lastOp' = op
    /\ UNCHANGED <<now, permission, notifiedTasks, dispatched, mounted, notificationCheck,
                   timers, cleanupSet>>
    /\ UNCHANGED <<notificationPermission, reader, swVars>>

addTask(dueUtc) ==
    /\ idCounter < MaxGenerated
    /\ Len(tasks) < MaxTasks
    /\ idCounter' = idCounter + 1
    /\ SetTasks(<<Task(GenId(idCounter + 1), dueUtc, FALSE)>> \o tasks,
                Op("addTask", GenId(idCounter + 1)))
    /\ history' = AddToHistory(history)
    /\ UNCHANGED deletedIds

\* prev.map((task) => (task.id === id ? { ...task, ...updates } : task)), updates = {dueUtc}
updateTask(id, dueUtc) ==
    /\ \E i \in DOMAIN tasks : tasks[i].id = id
    /\ SetTasks([i \in DOMAIN tasks |->
                    IF tasks[i].id = id THEN [tasks[i] EXCEPT !.dueUtc = dueUtc] ELSE tasks[i]],
                Op("updateTask", id))
    /\ history' = AddToHistory(history)
    /\ UNCHANGED <<idCounter, deletedIds>>

toggleComplete(id) ==
    /\ \E i \in DOMAIN tasks : tasks[i].id = id
    /\ SetTasks([i \in DOMAIN tasks |->
                    IF tasks[i].id = id THEN [tasks[i] EXCEPT !.completed = ~tasks[i].completed]
                    ELSE tasks[i]],
                Op("toggleComplete", id))
    /\ history' = AddEntries(history, Cardinality({ i \in DOMAIN tasks : tasks[i].id = id }))
    /\ UNCHANGED <<idCounter, deletedIds>>

deleteTask(id) ==
    /\ \E i \in DOMAIN tasks : tasks[i].id = id
    /\ SetTasks(SelectSeq(tasks, LAMBDA task : task.id # id), Op("deleteTask", id))
    /\ deletedIds' = deletedIds \cup {id}
    /\ history' = AddToHistory(history)
    /\ UNCHANGED idCounter

clearCompleted ==
    /\ \E i \in DOMAIN tasks : tasks[i].completed
    /\ SetTasks(SelectSeq(tasks, LAMBDA task : ~task.completed), Op("clearCompleted", ""))
    /\ history' = AddEntries(history, Cardinality({ i \in DOMAIN tasks : tasks[i].completed }))
    /\ UNCHANGED <<idCounter, deletedIds>>

\* importJson of a file that is an array of tasks, when its reader loads before anything
\* else happens: setTasks((prev) => [...normalized, ...prev])
importJson(file) ==
    /\ Len(file) + Len(tasks) <= MaxTasks
    /\ SetTasks(file \o tasks, Op("importJson", ""))
    /\ UNCHANGED <<idCounter, deletedIds, history>>

Ids == { tasks[i].id : i \in DOMAIN tasks }

Next ==
    \/ \E p \in Permissions : PermissionEffect(p)
    \/ Effect(MaxDispatched, {Works})
    \/ IntervalTick(MaxDispatched, {Works})
    \/ Advance(StepMs, MaxMinutes * MsPerMinute)
    \/ \E d \in DueChoices : addTask(d)
    \/ \E id \in Ids, d \in DueChoices : updateTask(id, d)
    \/ \E id \in Ids : toggleComplete(id)
    \/ \E id \in Ids : deleteTask(id)
    \/ clearCompleted
    \/ \E file \in ImportFiles : importJson(file)

Spec == Init /\ [][Next]_vars

----------------------------------------------------------------------------
(* Vocabulary of the properties *)

\* the configured thresholds, in minutes, in the order of NOTIFICATION_LEVELS
Windows == <<300, 120, 60, 30, 10>>

\* the threshold of W minutes is in window at time t for a task due at dueMs:
\* W - 1 < floor((dueMs - t) / 60000) <= W, stated on the milliseconds
InBand(dueMs, t, W) == W * MsPerMinute <= dueMs - t /\ dueMs - t < (W + 1) * MsPerMinute

\* the reminders dispatched so far for task id at the k-th threshold
Sent(id, k) ==
    { j \in DOMAIN dispatched :
        dispatched[j].taskId = id /\ dispatched[j].level = NOTIFICATION_LEVELS[k].label }

ActiveEntries(id) == { i \in DOMAIN tasks : tasks[i].id = id /\ ~tasks[i].completed }

\* the task id has one due date: every active entry carrying the id agrees on it
OneDue(id) == \A i, j \in ActiveEntries(id) : tasks[i].dueUtc = tasks[j].dueUtc

Ticked == lastOp.op = "checkNotifications"

----------------------------------------------------------------------------
(* Fixed due dates: the page is loaded with a stored list and only time passes *)

FixedDues == { WholeDue(m) : m \in {1, 12, 302} } \cup {HalfDue(11), HalfDue(301), Null}

FixedTaskLists ==
    { <<Task("a", d, FALSE)>> : d \in FixedDues }
    \cup { <<Task("a", d1, FALSE), Task("b", d2, FALSE)>> : d1, d2 \in FixedDues }
    \cup { <<Task("a", d, FALSE), Task("a", d, FALSE)>> : d \in FixedDues }
    \cup { <<Task("a", HalfDue(11), FALSE), Task("a", WholeDue(302), FALSE)>> }

InitFixed == \E ts \in FixedTaskLists : Loaded(ts)

NextFixed ==
    \/ \E p \in Permissions : PermissionEffect(p)
    \/ Effect(MaxDispatched, {Works})
    \/ IntervalTick(MaxDispatched, {Works})
    \/ Advance(StepMs, MaxMinutes * MsPerMinute)

SpecFixed == InitFixed /\ [][NextFixed]_vars

\* C1: for an active task whose due date never changes (every active entry of its id
\* carries that due date), a (task, threshold) pair is dispatched at most once, and after
\* any tick that ran while the threshold was in window (the first such tick or a later
\* one in the same window) it has been dispatched exactly once.
C1_OncePerWindow ==
    \A i \in DOMAIN tasks : \A k \in DOMAIN Windows :
        (~tasks[i].completed /\ tasks[i].dueUtc.kind = "date" /\ OneDue(tasks[i].id)) =>
            /\ Cardinality(Sent(tasks[i].id, k)) <= 1
            /\ (Ticked /\ InBand(tasks[i].dueUtc.ms, now, Windows[k]))
                   => Cardinality(Sent(tasks[i].id, k)) = 1

\* a second tick inside the same window: it dispatched nothing, the pair's one reminder
\* came from an earlier tick
C1_Witness ==
    \E i \in DOMAIN tasks : \E k \in DOMAIN Windows :
        /\ ~tasks[i].completed /\ tasks[i].dueUtc.kind = "date" /\ OneDue(tasks[i].id)
        /\ Ticked /\ lastOp.n = 0
        /\ InBand(tasks[i].dueUtc.ms, now, Windows[k])
        /\ InBand(tasks[i].dueUtc.ms, now - StepMs, Windows[k])
        /\ Cardinality(Sent(tasks[i].id, k)) = 1

----------------------------------------------------------------------------
(* Six hours: one task due in 360 minutes, a tick every minute until it is overdue *)

SixHoursDue == WholeDue(6 * 60)

SixHoursLists ==
    { <<Task("a", SixHoursDue, FALSE)>>,
      <<Task("b", Null, FALSE), Task("a", SixHoursDue, FALSE)>>,
      <<Task("a", SixHoursDue, FALSE), Task("b", HalfDue(6 * 60), FALSE)>> }

InitSixHours == \E ts \in SixHoursLists : Loaded(ts)

NextSixHours ==
    \/ \E p \in Permissions : PermissionEffect(p)
    \/ Effect(Len(NOTIFICATION_LEVELS) * MaxTasks, {Works})
    \/ IntervalTick(Len(NOTIFICATION_LEVELS) * MaxTasks, {Works})
    \/ (Ticked /\ Advance(MsPerMinute, SixHoursDue.ms + StepsPerMinute * MsPerMinute))

SpecSixHours == InitSixHours /\ [][NextSixHours]_vars

\* the reminders dispatched so far for task id, in dispatch order
SentTo(id) == SelectSeq(dispatched, LAMBDA r : r.taskId = id)

\* C2: the task due in 6 hours, ticked every minute from an empty ledger, is reminded in
\* the order 300, 120, 60, 30, 10 minutes, each threshold once and at its own window,
\* and once it is overdue all five reminders have been dispatched.
C2_FiveInOrder ==
    LET s == SentTo("a")
    IN /\ Len(s) <= Len(Windows)
       /\ \A j \in DOMAIN s :
             /\ s[j].minutesLeft = Windows[j]
             /\ s[j].level = NOTIFICATION_LEVELS[j].label
       /\ (Ticked /\ now >= SixHoursDue.ms) => Len(s) = Len(Windows)

C2_Witness == Ticked /\ now >= SixHoursDue.ms /\ Len(SentTo("a")) = 5 /\ Len(tasks) = 2

----------------------------------------------------------------------------
(* Due-date push: a task that was reminded is pushed 10 hours (or a day) out when it is
   due in 20 minutes, and time runs on until its new 2-hour window has passed *)

PushStart == WholeDue(121)

\* the new due date: 10 hours out
TenHoursOut == Due(now + 10 * 60 * MsPerMinute)

\* "Set due tomorrow": newDue.setDate(newDue.getDate() + 1)
Tomorrow == Due(now + 24 * 60 * MsPerMinute)

InitPush == Loaded(<<Task("a", PushStart, FALSE)>>)

NextPush ==
    \/ \E p \in Permissions : PermissionEffect(p)
    \/ Effect(Len(NOTIFICATION_LEVELS) * MaxTasks, {Works})
    \/ IntervalTick(Len(NOTIFICATION_LEVELS) * MaxTasks, {Works})
    \/ Advance(StepMs, PushStart.ms + (10 * 60 - 120) * MsPerMinute)
    \/ /\ MinutesLeft(tasks[1].dueUtc.ms, now) = 20
       /\ \E d \in {TenHoursOut, Tomorrow} : updateTask("a", d)

SpecPush == InitPush /\ [][NextPush]_vars

Pushed == tasks[1].dueUtc.ms > PushStart.ms

\* C4: once the task due in 20 minutes has been pushed out, the tick that follows leaves
\* no ledger entry of the task (as long as it is more than 300 minutes ahead), and a
\* tick in the 2-hour window of the new due date has dispatched the 2-hour reminder for
\* the new due date, also when it had been dispatched for the old one.
C4_PushResets ==
    /\ (Pushed /\ permission = "granted" /\ ~effectPending
              /\ tasks[1].dueUtc.ms - now >= 301 * MsPerMinute)
          => KeysOf("a") \cap notifiedTasks = {}
    /\ (Pushed /\ Ticked /\ InBand(tasks[1].dueUtc.ms, now, 120))
          => \E j \in Sent("a", 2) : dispatched[j].due = tasks[1].dueUtc

\* the 2-hour reminder went out for the old due date and again for the new one
C4_Witness ==
    /\ Pushed /\ Ticked /\ InBand(tasks[1].dueUtc.ms, now, 120)
    /\ Cardinality(Sent("a", 2)) = 2
    /\ \E j \in Sent("a", 2) : dispatched[j].due = PushStart

----------------------------------------------------------------------------
(* Near horizon: ticks and due-date edits that never take a task beyond the far cutoff *)

NearDues == { WholeDue(1), HalfDue(10), HalfDue(11), WholeDue(12), Null }

NearLists ==
    { <<Task("a", d, FALSE)>> : d \in NearDues }
    \cup { <<Task("a", d, FALSE), Task("b", HalfDue(10), FALSE)>> : d \in NearDues }

InitNear == \E ts \in NearLists : Loaded(ts)

\* an edit that leaves the task at most 300 minutes ahead
NearUpdate(id, d) ==
    /\ d.kind = "date" => d.ms - now < 301 * MsPerMinute
    /\ updateTask(id, d)

NextNear ==
    \/ \E p \in Permissions : PermissionEffect(p)
    \/ Effect(Len(NOTIFICATION_LEVELS) * MaxTasks, {Works})
    \/ IntervalTick(Len(NOTIFICATION_LEVELS) * MaxTasks, {Works})
    \/ Advance(StepMs, MaxMinutes * MsPerMinute)
    \/ \E d \in NearDues \cup {WholeDue(302)} : NearUpdate("a", d)

SpecNear == InitNear /\ [][NextNear]_vars

\* C5: while no tick sees a task more than 300 minutes ahead, whatever the due-date
\* edits between the ticks, no (task, threshold) pair is dispatched twice.
C5_NoRefireInNearHorizon ==
    \A id \in {"a", "b"} : \A k \in DOMAIN Windows : Cardinality(Sent(id, k)) <= 1

\* an edit moved the task back above a threshold it had been reminded of; a tick in the
\* window of the new due date dispatched nothing
C5_Witness ==
    /\ Ticked /\ lastOp.n = 0
    /\ \E i \in DOMAIN tasks : \E k \in DOMAIN Windows :
          /\ ~tasks[i].completed /\ tasks[i].dueUtc.kind = "date"
          /\ InBand(tasks[i].dueUtc.ms, now, Windows[k])
          /\ Cardinality(Sent(tasks[i].id, k)) = 1
          /\ \A j \in Sent(tasks[i].id, k) : dispatched[j].due.ms < tasks[i].dueUtc.ms

----------------------------------------------------------------------------
(* Properties of the unrestricted specification *)

Dated(i) == tasks[i].dueUtc.kind = "date"

\* the indices of the reminders a step dispatches
NewlySent == (DOMAIN dispatched') \ (DOMAIN dispatched)

\* C3: the evaluator takes the threshold of W minutes to be in window exactly when
\* W * 60000 <= dueAt - now < (W + 1) * 60000, that is when the floored minutes
\* remaining equal W, and every reminder was dispatched by a tick that observed exactly
\* the minutes of its threshold.
C3_Band ==
    /\ \A i \in DOMAIN tasks : \A k \in DOMAIN Windows :
          Dated(i) =>
             (InWindow(MinutesLeft(tasks[i].dueUtc.ms, now), ThresholdMinutes(NOTIFICATION_LEVELS[k]))
                <=> InBand(tasks[i].dueUtc.ms, now, Windows[k]))
    /\ \A j \in DOMAIN dispatched : \E k \in DOMAIN Windows :
          /\ dispatched[j].level = NOTIFICATION_LEVELS[k].label
          /\ dispatched[j].minutesLeft = Windows[k]

\* a tick dispatched a reminder half a minute after the threshold's instant: the floor decided
C3_Witness ==
    /\ Ticked /\ lastOp.n = 1
    /\ \E i \in DOMAIN tasks :
          /\ ~tasks[i].completed /\ Dated(i)
          /\ tasks[i].dueUtc = dispatched[Len(dispatched)].due
          /\ tasks[i].dueUtc.ms - now = 10 * MsPerMinute + StepMs
          /\ dispatched[Len(dispatched)].minutesLeft = 10

AllIds == StoredIds \cup { GenId(n) : n \in 1..MaxGenerated }

\* the entries of task id in the ledger whose reminder was last dispatched for a due date
\* that no task of that id has now
StaleEntries(id) ==
    { key \in KeysOf(id) \cap notifiedTasks :
        \E j \in DOMAIN dispatched :
           /\ dispatched[j].tag = key
           /\ \A j2 \in DOMAIN dispatched : j2 > j => dispatched[j2].tag # key
           /\ \A i \in DOMAIN tasks : tasks[i].id = id => tasks[i].dueUtc # dispatched[j].due }

C7_NoDispatchAfterDelete ==
    [][ \A j \in NewlySent : dispatched'[j].taskId \notin deletedIds ]_vars

\* the entry the reminder r was dispatched for is in the active list, in r's window
DispatchedForActive(r) ==
    \E i \in DOMAIN tasks : \E k \in DOMAIN Windows :
       /\ tasks[i].id = r.taskId /\ ~tasks[i].completed /\ tasks[i].dueUtc = r.due
       /\ Dated(i) /\ InBand(tasks[i].dueUtc.ms, now, Windows[k])
       /\ r.level = NOTIFICATION_LEVELS[k].label

\* an active entry of the id is more than 300 minutes ahead: its cleanup runs in the tick
SomeEntryFar(id) ==
    \E i \in ActiveEntries(id) : Dated(i) /\ tasks[i].dueUtc.ms - now >= 301 * MsPerMinute

\* what the code does for a deleted id: a reminder is dispatched only when a task with
\* that id is in the active list again, for a threshold that is in window, and not while
\* the threshold's ledger entry from before is still there (unless the same tick prunes it).
C7_DispatchOnlyIfBack ==
    [][ \A j \in NewlySent :
          dispatched'[j].taskId \in deletedIds =>
             /\ DispatchedForActive(dispatched'[j])
             /\ dispatched'[j].tag \in notifiedTasks => SomeEntryFar(dispatched'[j].taskId) ]_vars

\* the deleted id is back in the active list, a tick ran in the window of a threshold
\* whose entry was still in the ledger, and nothing was dispatched
C7_Witness ==
    /\ Ticked /\ lastOp.n = 0
    /\ \E i \in DOMAIN tasks : \E k \in DOMAIN Windows :
          /\ tasks[i].id \in deletedIds /\ ~tasks[i].completed /\ Dated(i)
          /\ InBand(tasks[i].dueUtc.ms, now, Windows[k])
          /\ NotificationKey(tasks[i].id, NOTIFICATION_LEVELS[k]) \in notifiedTasks
          /\ Cardinality(Sent(tasks[i].id, k)) = 1

\* C8: no reminder is ever dispatched for an entry without due date, and a tick changes
\* neither the reminders nor the ledger entries of a task whose active entries have no
\* due date, whatever else is in the list.
C8_NoDueNoReminder ==
    [][ /\ \A j \in NewlySent : dispatched'[j].due # Null
        /\ \A id \in AllIds :
              (ActiveEntries(id) # {} /\ \A i \in ActiveEntries(id) : tasks[i].dueUtc = Null)
                 => /\ \A j \in NewlySent : dispatched'[j].taskId # id
                    /\ KeysOf(id) \cap notifiedTasks' = KeysOf(id) \cap notifiedTasks ]_vars

\* a tick dispatched a reminder of another task while a task without due date was active
C8_Witness ==
    /\ Ticked /\ lastOp.n > 0
    /\ \E id \in AllIds :
          /\ ActiveEntries(id) # {} /\ \A i \in ActiveEntries(id) : tasks[i].dueUtc = Null
          /\ \A j \in DOMAIN dispatched : dispatched[j].taskId # id

\* the entry is due or overdue: floor((dueAt - now) / 60000) <= 0
Overdue(i) == Dated(i) /\ tasks[i].dueUtc.ms - now < MsPerMinute

\* C9: for an entry with minutesRemaining <= 0 no threshold is in window, every reminder is
\* dispatched at least a full minute before its due date, and a tick dispatches nothing
\* for a task whose active entries are all due or overdue.
C9_OverdueSilent ==
    [][ /\ \A i \in DOMAIN tasks : \A k \in DOMAIN Windows :
              Overdue(i) => ~InWindow(MinutesLeft(tasks[i].dueUtc.ms, now),
                                      ThresholdMinutes(NOTIFICATION_LEVELS[k]))
        /\ \A j \in NewlySent : dispatched'[j].due.ms - now >= MsPerMinute
        /\ \A id \in AllIds :
              (ActiveEntries(id) # {} /\ \A i \in ActiveEntries(id) : Overdue(i))
                 => \A j \in NewlySent : dispatched'[j].taskId # id ]_vars

\* a tick ran over a task with 0 minutes remaining that was never reminded
C9_Witness ==
    /\ Ticked
    /\ \E i \in DOMAIN tasks :
          /\ ~tasks[i].completed /\ Overdue(i) /\ tasks[i].dueUtc.ms - now >= 0
          /\ \A j \in DOMAIN dispatched : dispatched[j].taskId # tasks[i].id

\* every active entry of the id that has a due date is more than 300 minutes ahead
AllEntriesFar(id) ==
    /\ \E i \in ActiveEntries(id) : Dated(i)
    /\ \A i \in ActiveEntries(id) : Dated(i) => tasks[i].dueUtc.ms - now >= 301 * MsPerMinute

\* C10: a tick leaves no ledger entry of a task it sees more than 300 minutes ahead, and
\* it removes no other entry: not of a task it sees at most 300 minutes ahead, not of a
\* task it does not evaluate.
C10_CleanupFrame ==
    [][ lastOp'.op = "checkNotifications" =>
          /\ \A id \in AllIds : AllEntriesFar(id) => KeysOf(id) \cap notifiedTasks' = {}
          /\ \A id \in AllIds :
                ~SomeEntryFar(id) => KeysOf(id) \cap notifiedTasks \subseteq notifiedTasks' ]_vars

\* a task that had been reminded is more than 300 minutes ahead: the tick removed its
\* entry and kept the entry of the other task
C10_Witness ==
    /\ Ticked
    /\ \E id \in AllIds :
          /\ AllEntriesFar(id)
          /\ \E j \in DOMAIN dispatched : dispatched[j].taskId = id
          /\ KeysOf(id) \cap notifiedTasks = {}
          /\ notifiedTasks # {}

----------------------------------------------------------------------------
(* The order of a tick: firing checks and cleanup *)

\* the order the specification gives for one task: a task beyond the far cutoff (the
\* largest configured window) is pruned and its firing checks are skipped
PruneFirstTask(task, t, st) ==
    IF task.dueUtc.kind # "date" THEN st
    ELSE LET minutesRemaining == (task.dueUtc.ms - t) \div MsPerMinute
         IN IF minutesRemaining > Windows[1]
            THEN [ st EXCEPT !.led = st.led \ KeysOf(task.id) ]
            ELSE CheckLevels(task, minutesRemaining, 1, st)

RECURSIVE PruneFirstFrom(_, _, _, _)
PruneFirstFrom(active, t, i, st) ==
    IF i > Len(active) THEN st
    ELSE PruneFirstFrom(active, t, i + 1, PruneFirstTask(active[i], t, st))

PruneFirstTick(active, t, led) == PruneFirstFrom(active, t, 1, TickState(led, "granted", Works))

\* entry i is active and the tick sees it beyond the far cutoff
Far(i) == ~tasks[i].completed /\ Dated(i) /\ tasks[i].dueUtc.ms - now >= 301 * MsPerMinute

\* C11: every tick dispatches what the prune-first order would dispatch and leaves the
\* ledger the prune-first order would leave; and the code's steps for a task beyond the
\* far cutoff dispatch nothing and leave no ledger entry of the task.
C11_SameAsPruneFirst ==
    [][ lastOp'.op = "checkNotifications" =>
          LET r == PruneFirstTick(ActiveTasks(tasks), now, notifiedTasks)
          IN /\ notifiedTasks' = r.led
             /\ dispatched' = dispatched \o r.out
             /\ \A i \in DOMAIN tasks :
                   Far(i) =>
                      LET st == CheckTask(tasks[i], now, TickState(notifiedTasks, "granted", Works))
                      IN st.out = <<>> /\ KeysOf(tasks[i].id) \cap st.led = {} ]_vars

\* a task that was reminded under an earlier due date is beyond the far cutoff now: the
\* tick dispatched nothing and the task's entries are gone
C11_Witness ==
    /\ Ticked /\ lastOp.n = 0
    /\ \E i \in DOMAIN tasks :
          /\ Far(i)
          /\ \E j \in DOMAIN dispatched :
                dispatched[j].taskId = tasks[i].id /\ dispatched[j].due # tasks[i].dueUtc
          /\ KeysOf(tasks[i].id) \cap notifiedTasks = {}

----------------------------------------------------------------------------
(* Permission *)

\* C12: while the permission is not granted, no step dispatches a reminder and no step
\* changes the ledger, whatever the task list and the clock.
C12_NoPermissionNoTick ==
    [][ permission # "granted" =>
          (notifiedTasks' = notifiedTasks /\ dispatched' = dispatched) ]_vars

\* the permission is denied, the effect has run while a threshold of an active task was
\* in window, and nothing was dispatched or recorded
C12_Witness ==
    /\ permission = "denied" /\ ~effectPending
    /\ dispatched = <<>> /\ notifiedTasks = {}
    /\ \E i \in DOMAIN tasks : \E k \in DOMAIN Windows :
          ~tasks[i].completed /\ Dated(i) /\ InBand(tasks[i].dueUtc.ms, now, Windows[k])

----------------------------------------------------------------------------
(* Platforms whose Notification constructor may throw or show nothing, and the teardown *)

Platforms == { Platform(failAt, silent) : failAt \in 0..MaxDispatched, silent \in BOOLEAN }

PlatformLists ==
    { <<Task("a", d, FALSE)>> : d \in FixedDues }
    \cup { <<Task("a", d1, FALSE), Task("b", d2, FALSE)>> : d1, d2 \in FixedDues }

InitPlatform == \E ts \in PlatformLists : Loaded(ts)

\* TodoApp is unmounted: React runs the cleanup the effect returned
Unmount ==
    /\ mounted /\ ~effectPending
    /\ mounted' = FALSE
    /\ timers' = IF cleanupSet /\ notificationCheck # 0
                 THEN ClearInterval(timers, notificationCheck) ELSE timers
    /\ cleanupSet' = FALSE
    /\ lastOp' = Op("unmount", "")
    /\ UNCHANGED <<now, tasks, permission, notifiedTasks, dispatched, effectPending,
                   idCounter, deletedIds, notificationCheck>>
    /\ UNCHANGED <<notificationPermission, history, reader, swVars>>

NextPlatform ==
    \/ \E p \in Permissions : PermissionEffect(p)
    \/ Effect(MaxDispatched, Platforms)
    \/ IntervalTick(MaxDispatched, Platforms)
    \/ Advance(StepMs, MaxMinutes * MsPerMinute)
    \/ \E id \in Ids : toggleComplete(id)
    \/ Unmount

SpecPlatform == InitPlatform /\ [][NextPlatform]_vars

\* C13: a reminder whose dispatch failed (nothing was shown, or the call threw) is in the
\* ledger at the end of its tick, and a tick attempts no reminder whose entry is in the
\* ledger.
C13_FailedDispatchRecorded ==
    [][ \A j \in NewlySent :
          /\ dispatched'[j].outcome # "shown" => dispatched'[j].tag \in notifiedTasks'
          /\ dispatched'[j].tag \notin notifiedTasks ]_vars

\* what the code does: a call that returned is recorded whatever became of the
\* notification, a call that threw is not, and the tick ends at it
C13_RecordedUnlessThrown ==
    [][ \A j \in NewlySent :
          /\ dispatched'[j].outcome # "throws" <=> dispatched'[j].tag \in notifiedTasks'
          /\ dispatched'[j].outcome = "throws" => j = Len(dispatched')
          /\ dispatched'[j].tag \notin notifiedTasks ]_vars

\* C14: no interval the hook made is scheduled once the effect is torn down or has been
\* left by an exception: a scheduled interval is the one whose cleanup React holds.
C14_TimerReleased ==
    timers # {} => (mounted /\ cleanupSet /\ \A tm \in timers : tm.id = notificationCheck)

\* what the code does: an interval outlives the effect only when the tick of the effect
\* run that made it threw
C14_LeakOnlyAfterThrow ==
    (timers # {} /\ ~(mounted /\ cleanupSet)) =>
        /\ ~mounted /\ lastOp.op # "unmount"
        /\ \E j \in DOMAIN dispatched : dispatched[j].outcome = "throws"

----------------------------------------------------------------------------
(* Who changes the ledger, and what is in it *)

\* C15: a step that is not a tick (adding, editing, completing, re-opening, deleting,
\* clearing and importing tasks, the permission, the clock) leaves the ledger as it is,
\* and a tick, also the one of an effect run that re-establishes the interval, starts
\* from the ledger of the tick before: an entry is gone after it only if the tick saw a
\* task of that id beyond the far cutoff.
C15_OnlyTicksWriteLedger ==
    [][ /\ lastOp'.op # "checkNotifications" => notifiedTasks' = notifiedTasks
        /\ \A key \in notifiedTasks \ notifiedTasks' :
              \E i \in DOMAIN tasks : Far(i) /\ key \in KeysOf(tasks[i].id) ]_vars

\* a task that had been reminded was deleted: its entry is still in the ledger
C15_Witness ==
    /\ lastOp.op = "deleteTask"
    /\ KeysOf(lastOp.id) \cap notifiedTasks # {}
    /\ \E j \in DOMAIN dispatched : dispatched[j].taskId = lastOp.id

\* the ids of the entries of the active set
ActiveIds == { tasks[i].id : i \in { j \in DOMAIN tasks : ~tasks[j].completed } }

\* C16: once a tick has run, every entry of the ledger is an entry of a task of the
\* active set: the entries of deleted and completed tasks are gone.
C16_LedgerOfActiveTasks ==
    Ticked => \A key \in notifiedTasks : \E id \in ActiveIds : key \in KeysOf(id)

\* what the code does: the entries of an id that has no task in the active set stay
C16_InactiveEntriesStay ==
    [][ \A id \in AllIds \ ActiveIds : KeysOf(id) \cap notifiedTasks \subseteq notifiedTasks' ]_vars

\* C17: every reminder a tick dispatches is for an entry that is in the active set at the
\* time of the tick, whether the tick is the one of an effect run or of an interval.
C17_OnlyActiveDispatched ==
    [][ \A j \in NewlySent : DispatchedForActive(dispatched'[j]) ]_vars

\* a tick ran in the window of a threshold of a completed task that was never reminded,
\* and dispatched nothing
C17_Witness ==
    /\ Ticked /\ lastOp.n = 0
    /\ \E i \in DOMAIN tasks : \E k \in DOMAIN Windows :
          /\ tasks[i].completed /\ Dated(i)
          /\ InBand(tasks[i].dueUtc.ms, now, Windows[k])
          /\ \A j \in DOMAIN dispatched : dispatched[j].taskId # tasks[i].id
          /\ \E tm \in timers : tm.elapsed = 0 /\ tm.active = ActiveTasks(tasks)

\* C18: no two entries of the task list have the same id.
C18_UniqueIds ==
    \A i, j \in DOMAIN tasks : i # j => tasks[i].id # tasks[j].id

\* what the code does: ids that genId made are unique; an id is twice in the list only
\* when importJson brought it in
C18_GeneratedIdsUnique ==
    \A i, j \in DOMAIN tasks :
        (i # j /\ tasks[i].id = tasks[j].id) => tasks[i].id \in StoredIds

----------------------------------------------------------------------------
(* The tag of a reminder *)

\* the configured windows in hours, as printed
HoursText == <<"5", "2", "1", "0.5", "0.16666666666666666">>

\* C19 as stated: the tag of every reminder is "task-" + taskId + "-" + the window of
\* its threshold in minutes.
C19_TagIsWindowMinutes ==
    \A j \in DOMAIN dispatched : \E k \in DOMAIN Windows :
        /\ dispatched[j].level = NOTIFICATION_LEVELS[k].label
        /\ dispatched[j].tag = "task-" \o dispatched[j].taskId \o "-" \o IntToText(Windows[k])

\* C19, amended: the tag of every reminder is "task-" + taskId + "-" + the window of its
\* threshold in hours as JavaScript prints the number (5, 2, 1, 0.5,
\* 0.16666666666666666), and it is the key the tick records in the ledger.
C19_TagIsHoursKey ==
    /\ \A j \in DOMAIN dispatched : \E k \in DOMAIN Windows :
          /\ dispatched[j].level = NOTIFICATION_LEVELS[k].label
          /\ dispatched[j].minutesLeft = Windows[k]
          /\ dispatched[j].tag = "task-" \o dispatched[j].taskId \o "-" \o HoursText[k]
    /\ \A key \in notifiedTasks : \E j \in DOMAIN dispatched : dispatched[j].tag = key

\* the 10 minutes reminder of task a went out with the tag of 10 / 60 hours
C19_Witness ==
    \E j \in DOMAIN dispatched :
        /\ dispatched[j].taskId = "a" /\ dispatched[j].minutesLeft = 10
        /\ dispatched[j].tag = "task-a-0.16666666666666666"
        /\ dispatched[j].tag \in notifiedTasks

----------------------------------------------------------------------------
(* Restart: the page is loaded again; the task list is the stored one *)

\* the page is closed and loaded again: its timers are gone with it, every hook starts
\* from its initial state, and tasks is read from localStorage
Reload ==
    /\ ~effectPending
    /\ permission' = "default"
    /\ notifiedTasks' = FreshLedger(notifiedTasks)
    /\ effectPending' = TRUE
    /\ mounted' = TRUE
    /\ notificationCheck' = 0
    /\ timers' = {}
    /\ cleanupSet' = FALSE
    /\ lastOp' = Op("reload", "")
    /\ notificationPermission' = "default"
    /\ reader' = NoRead
    /\ UNCHANGED <<now, tasks, dispatched, idCounter, deletedIds, history, swVars>>

InitRestart == \E ts \in FixedTaskLists : Loaded(ts)

NextRestart ==
    \/ \E p \in Permissions : PermissionEffect(p)
    \/ Effect(2 * MaxDispatched, {Works})
    \/ IntervalTick(2 * MaxDispatched, {Works})
    \/ Advance(StepMs, MaxMinutes * MsPerMinute)
    \/ Reload

SpecRestart == InitRestart /\ [][NextRestart]_vars

\* the reminders a step dispatches for task id at the k-th threshold
NewlySentFor(id, k) ==
    { j \in NewlySent :
        dispatched'[j].taskId = id /\ dispatched'[j].level = NOTIFICATION_LEVELS[k].label }

\* the k-th threshold of an active entry of task id is in window
InWindowNow(id, k) ==
    \E i \in ActiveEntries(id) : Dated(i) /\ InBand(tasks[i].dueUtc.ms, now, Windows[k])

\* C20: the first tick of a session (the ledger is empty, the permission has just been
\* found granted) dispatches every threshold that is in window for an active task
\* exactly once and nothing else, whatever was dispatched before the restart.
C20_FirstTickAfterRestart ==
    [][ (lastOp.op = "setPermission" /\ lastOp'.op = "checkNotifications") =>
          \A id \in {"a", "b"} : \A k \in DOMAIN Windows :
              Cardinality(NewlySentFor(id, k)) = IF InWindowNow(id, k) THEN 1 ELSE 0 ]_vars

\* a threshold was dispatched, the page was loaded again in the same window, and the
\* first tick dispatched it a second time
C20_Witness ==
    /\ Ticked /\ lastOp.n = 1
    /\ \E i \in DOMAIN tasks : \E k \in DOMAIN Windows :
          /\ ~tasks[i].completed /\ Dated(i)
          /\ InBand(tasks[i].dueUtc.ms, now, Windows[k])
          /\ Cardinality({ j \in Sent(tasks[i].id, k) :
                             /\ dispatched[j].due = tasks[i].dueUtc
                             /\ dispatched[j].minutesLeft = Windows[k] }) = 2

----------------------------------------------------------------------------
(* Punctual intervals: an interval that is due calls before the clock moves on, so two
   consecutive ticks are at most 60 seconds apart *)

\* the last instant of the scenario, in ms
PunctualEnd == 13 * MsPerMinute

PunctualDues == {HalfDue(11), WholeDue(12), WholeDue(302), Null}

PunctualLists ==
    { <<Task("a", d, FALSE)>> : d \in PunctualDues }
    \cup { <<Task("a", d, FALSE), Task("b", HalfDue(301), FALSE)>> : d \in PunctualDues }
    \cup { <<Task("a", HalfDue(11), FALSE), Task("a", HalfDue(11), FALSE)>> }

InitPunctual == \E ts \in PunctualLists : Loaded(ts)

\* the clock moves on only when no interval is due
AdvancePunctual(step, limit) ==
    /\ \A tm \in timers : tm.elapsed < CheckEvery
    /\ Advance(step, limit)

NextPunctual ==
    \/ \E p \in Permissions : PermissionEffect(p)
    \/ Effect(Len(NOTIFICATION_LEVELS) * MaxTasks, {Works})
    \/ IntervalTick(Len(NOTIFICATION_LEVELS) * MaxTasks, {Works})
    \/ AdvancePunctual(StepMs, PunctualEnd)

\* the browser calls an interval that is due, and time passes
SpecPunctual ==
    /\ InitPunctual
    /\ [][NextPunctual]_vars
    /\ WF_vars(IntervalTick(Len(NOTIFICATION_LEVELS) * MaxTasks, {Works}))
    /\ WF_vars(AdvancePunctual(StepMs, PunctualEnd))

\* the polling loop runs: the effect ran with the permission granted and its interval
\* is scheduled
LoopRuns ==
    /\ mounted /\ Granted(permission) /\ ~effectPending
    /\ \E tm \in timers : tm.id = notificationCheck

\* an active entry of id is due more than Windows[k] minutes from now, and the window
\* of the threshold ends before the scenario does
Ahead(id, k) ==
    /\ OneDue(id)
    /\ \E i \in ActiveEntries(id) :
          /\ Dated(i)
          /\ tasks[i].dueUtc.ms - now > Windows[k] * MsPerMinute
          /\ tasks[i].dueUtc.ms - Windows[k] * MsPerMinute + MsPerMinute <= PunctualEnd

\* the threshold was dispatched for id while the task had Windows[k] minutes left
Reminded(id, k) ==
    \E j \in Sent(id, k) : \E i \in ActiveEntries(id) :
        /\ dispatched[j].minutesLeft = Windows[k]
        /\ dispatched[j].due = tasks[i].dueUtc

\* C21: while the loop runs with the permission granted and ticks are at most 60 seconds
\* apart, an active task with a fixed due date more than W minutes ahead is eventually
\* reminded at the threshold W, with W minutes left and so before it is due, whatever
\* the phase of the ticks and however often the effect re-runs.
C21_EventuallyDispatched ==
    \A id \in {"a", "b"} : \A k \in DOMAIN Windows :
        (LoopRuns /\ Ahead(id, k)) ~> Reminded(id, k)

\* the loop started half a minute after the page was loaded, and the task due 11.5
\* minutes after the load got its 10 minutes reminder
C21_Witness ==
    /\ LoopRuns /\ Reminded("a", 5)
    /\ \E j \in Sent("a", 5) : dispatched[j].due = HalfDue(11)
    /\ \E tm \in timers : tm.elapsed = 0
    /\ now = MsPerMinute + StepMs

----------------------------------------------------------------------------
(* Due dates that do not parse: an imported or stored task whose dueUtc is a text that
   new Date(...) cannot read *)

InvalidLists ==
    { <<Task("a", Invalid, FALSE)>>,
      <<Task("a", Invalid, FALSE), Task("b", HalfDue(11), FALSE)>>,
      <<Task("b", WholeDue(302), FALSE), Task("a", Invalid, FALSE)>>,
      <<Task("b", HalfDue(11), FALSE)>> }

InvalidFiles == { <<Task("c", Invalid, FALSE)>>, <<Task("b", Invalid, TRUE)>> }

InitInvalid == \E ts \in InvalidLists : Loaded(ts)

NextInvalid ==
    \/ \E p \in Permissions : PermissionEffect(p)
    \/ Effect(MaxDispatched, {Works})
    \/ IntervalTick(MaxDispatched, {Works})
    \/ Advance(StepMs, MaxMinutes * MsPerMinute)
    \/ \E file \in InvalidFiles : importJson(file)
    \/ \E id \in Ids : toggleComplete(id)

SpecInvalid == InitInvalid /\ [][NextInvalid]_vars

Parses(task) == task.dueUtc # Invalid

\* C22: a tick treats a task whose due date does not parse as if it were not in the
\* list: the task alone changes nothing (no dispatch, no ledger change, no error), the
\* tick as a whole dispatches and records what it would for the other tasks, and the
\* hook stays mounted.
C22_InvalidDueSkipped ==
    [][ lastOp'.op = "checkNotifications" =>
          LET active == ActiveTasks(tasks)
              st == TickState(notifiedTasks, "granted", Works)
              r == CheckNotifications(SelectSeq(active, Parses), now, notifiedTasks,
                                      "granted", Works)
          IN /\ \A i \in DOMAIN active :
                   ~Parses(active[i]) => CheckTask(active[i], now, st) = st
             /\ notifiedTasks' = r.led
             /\ dispatched' = dispatched \o r.out
             /\ \A j \in NewlySent : dispatched'[j].due # Invalid
             /\ mounted' ]_vars

\* a tick met an active task whose due date does not parse and, after it in the list, a
\* task in window: the second was reminded
C22_Witness ==
    /\ Ticked /\ lastOp.n = 1 /\ mounted
    /\ \E i, j \in DOMAIN tasks :
          /\ i < j
          /\ ~tasks[i].completed /\ tasks[i].dueUtc = Invalid
          /\ ~tasks[j].completed /\ Dated(j)
          /\ dispatched[Len(dispatched)].taskId = tasks[j].id
          /\ dispatched[Len(dispatched)].minutesLeft = (tasks[j].dueUtc.ms - now) \div MsPerMinute

----------------------------------------------------------------------------
(* One threshold at a time *)

\* the thresholds the tick at time t finds in window for a task due at dueMs
LevelsInWindow(dueMs, t) ==
    { k \in DOMAIN NOTIFICATION_LEVELS :
        InWindow(MinutesLeft(dueMs, t), ThresholdMinutes(NOTIFICATION_LEVELS[k])) }

\* the entries of the list seq that carry the id and the due date of the reminder r
EntriesOf(seq, r) == { i \in DOMAIN seq : seq[i].id = r.taskId /\ seq[i].dueUtc = r.due }

\* C23: at any instant at most one configured threshold is in window for a task, the
\* steps of a tick for one task dispatch at most one reminder even with nothing in the
\* ledger, and so a tick dispatches at most one reminder for each active entry of the
\* list.
C23_OneThresholdPerTick ==
    /\ [](\A i \in DOMAIN tasks :
             Dated(i) =>
                /\ Cardinality(LevelsInWindow(tasks[i].dueUtc.ms, now)) <= 1
                /\ Len(CheckTask(tasks[i], now, TickState({}, "granted", Works)).out) <= 1)
    /\ [][ \A j \in NewlySent :
             Cardinality({ j2 \in NewlySent : dispatched'[j2].taskId = dispatched'[j].taskId
                                               /\ dispatched'[j2].due = dispatched'[j].due })
                <= Cardinality(EntriesOf(ActiveTasks(tasks), dispatched'[j])) ]_vars

\* one tick reminded two tasks, each at the one threshold in window for it
C23_Witness ==
    /\ Ticked /\ lastOp.n = 2 /\ Len(dispatched) = 2
    /\ dispatched[1].taskId # dispatched[2].taskId
    /\ \A j \in DOMAIN dispatched : \E i \in DOMAIN tasks :
          /\ tasks[i].id = dispatched[j].taskId /\ Dated(i)
          /\ Cardinality(LevelsInWindow(tasks[i].dueUtc.ms, now)) = 1

----------------------------------------------------------------------------
(* Enable Notifications: the permission is granted while the page is open *)

\* requestNotifications: Notification.permission is not granted, requestPermission of
\* TodoApp's useIOSNotifications awaits the answer and calls its own setPermission; the
\* render that follows re-runs the effect of useEnhancedNotifications
RequestPermission(result) ==
    /\ mounted /\ ~effectPending
    /\ notificationPermission = "default"
    /\ result # "default"
    /\ notificationPermission' = result
    /\ effectPending' = TRUE
    /\ lastOp' = Op("requestPermission", "")
    /\ UNCHANGED <<now, tasks, permission, notifiedTasks, dispatched, idCounter, deletedIds,
                   mounted, notificationCheck, timers, cleanupSet, history, reader, swVars>>

InitRequest == \E ts \in PlatformLists : Loaded(ts)

NextRequest ==
    \/ \E p \in Permissions : PermissionEffect(p)
    \/ \E result \in Permissions : RequestPermission(result)
    \/ Effect(MaxDispatched, {Works})
    \/ IntervalTick(MaxDispatched, {Works})
    \/ Advance(StepMs, MaxMinutes * MsPerMinute)

SpecRequest == InitRequest /\ [][NextRequest]_vars

\* C24: once the permission has been granted through requestPermission and the render
\* it causes has run its effects, the reminder loop runs: no reload is needed.
C24_LoopStartsInSession ==
    (mounted /\ ~effectPending /\ notificationPermission = "granted") => LoopRuns

\* what the code does: the loop runs only when the permission was granted already when
\* the page was loaded; a grant in the session reaches TodoApp's state alone
C24_LoopOnlyFromMount ==
    /\ LoopRuns => permission = "granted"
    /\ [][ permission' # permission => lastOp'.op = "setPermission" ]_vars

----------------------------------------------------------------------------
(* Import of a backup: reader.readAsText(file) returns at once and reader.onload runs
   when the file has been read; the user goes on working in between *)

\* useLocalStorage's setValue called with (prev) => [...normalized, ...prev]: the updater
\* is called with storedValue, the list of the render this setValue was made in, and
\* the result goes to setStoredValue and to localStorage
SetValue(file, storedValue, current) == file \o storedValue

\* [...data.history, ...existingHistory].slice(0, 499), on the lengths
MergeHistory(imported, existing) == Min(imported + existing, HistoryKept)

\* importJson(file) up to reader.readAsText(file): onload is a closure of this render,
\* with its setTasks and the storedValue in it; fileHistory is the length of
\* data.history, -1 for a file without one
ReadAsText(file, fileHistory) ==
    /\ mounted /\ ~effectPending
    /\ ~reader.busy
    /\ reader' = [busy |-> TRUE, file |-> file, history |-> fileHistory,
                  storedValue |-> tasks]
    /\ lastOp' = Op("readAsText", "")
    /\ UNCHANGED <<now, tasks, permission, notifiedTasks, dispatched, effectPending,
                   idCounter, deletedIds, mounted, notificationCheck, timers, cleanupSet,
                   notificationPermission, history, swVars>>

\* reader.onload: setTasks of the closure, then the history merge
Onload ==
    /\ mounted /\ ~effectPending
    /\ reader.busy
    /\ Len(reader.file) + Len(reader.storedValue) <= MaxTasks
    /\ tasks' = SetValue(reader.file, reader.storedValue, tasks)
    /\ history' = IF reader.history >= 0 THEN MergeHistory(reader.history, history)
                  ELSE history
    /\ reader' = NoRead
    /\ effectPending' = TRUE
    /\ lastOp' = Op("onload", "")
    /\ UNCHANGED <<now, permission, notifiedTasks, dispatched, idCounter, deletedIds,
                   mounted, notificationCheck, timers, cleanupSet, notificationPermission,
                   swVars>>

ImportLists == { <<>>, <<Task("a", Null, FALSE)>>, <<Task("a", WholeDue(302), TRUE)>> }

BackupFiles == { <<Task("b", Null, FALSE)>>, <<Task("a", HalfDue(11), FALSE)>> }

InitImport == \E ts \in ImportLists : Loaded(ts)

NextImport ==
    \/ Effect(MaxDispatched, {Works})
    \/ \E file \in BackupFiles : ReadAsText(file, -1)
    \/ Onload
    \/ \E d \in {Null, WholeDue(302)} : addTask(d)
    \/ \E id \in Ids, d \in {Null, WholeDue(302)} : updateTask(id, d)
    \/ \E id \in Ids : toggleComplete(id)
    \/ \E id \in Ids : deleteTask(id)

SpecImport == InitImport /\ [][NextImport]_vars

\* C25: when the file of an import has been read, the imported tasks are put before the
\* list that is current at that moment: what was added, edited, completed or deleted
\* since the import was started is still there.
C25_ImportKeepsChanges ==
    [][ (reader.busy /\ ~reader'.busy) => tasks' = reader.file \o tasks ]_vars

\* what the code does: the imported tasks are put before the list of the moment the
\* import was started
C25_ImportOverStartList ==
    [][ (reader.busy /\ ~reader'.busy) => tasks' = reader.file \o reader.storedValue ]_vars

----------------------------------------------------------------------------
(* How many intervals are scheduled *)

\* C26: at most one interval of the hook is scheduled, however often the effect re-runs,
\* and none is once the hook is unmounted or the permission is not granted.
C26_AtMostOneInterval ==
    /\ Cardinality(timers) <= 1
    /\ (~mounted \/ ~Granted(permission)) => timers = {}

\* what the code does: never two intervals, and an interval without a mounted hook only
\* after the tick of the effect run that made it threw
C26_OneUnlessThrown ==
    /\ Cardinality(timers) <= 1
    /\ (timers # {} /\ (~mounted \/ ~Granted(permission))) =>
          \E j \in DOMAIN dispatched : dispatched[j].outcome = "throws"

----------------------------------------------------------------------------
(* The time between two ticks *)

\* punctual intervals while the user completes, re-opens and deletes tasks
NextEdits ==
    \/ NextPunctual
    \/ \E id \in Ids : toggleComplete(id)
    \/ \E id \in Ids : deleteTask(id)

SpecEdits == InitPunctual /\ [][NextEdits]_vars

\* the interval the cleanup of the effect would clear
LoopTimer == { tm \in timers : tm.id = notificationCheck }

\* C27: with intervals that call when they are due, the tick before any instant at which
\* the loop runs is at most 60 seconds old. The ms of an interval count the time since
\* it was made or called; an interval is made or called only in a step that is a tick
\* over the list of that moment (the effect ticks when it re-runs, so restarting the
\* interval postpones nothing); and the loop's interval never shows more than 60000 ms.
C27_TickEveryMinute ==
    /\ [](LoopRuns => \A tm \in LoopTimer : tm.elapsed <= MsPerMinute)
    /\ [][ /\ now' # now =>
                timers' = { [tm EXCEPT !.elapsed = tm.elapsed + (now' - now)] : tm \in timers }
           /\ \A tm \in timers' \ timers :
                tm.elapsed = 0 =>
                   LET r == CheckNotifications(ActiveTasks(tasks), now, notifiedTasks,
                                               "granted", Works)
                   IN /\ lastOp'.op = "checkNotifications"
                      /\ tm.active = ActiveTasks(tasks)
                      /\ notifiedTasks' = r.led
                      /\ dispatched' = dispatched \o r.out ]_vars

\* a task was deleted, and the effect re-run a minute and a half after the load reminded
\* the task due in 12 minutes of its 10 minutes at once, over the list without the
\* deleted task
C27_Witness ==
    /\ LoopRuns /\ Ticked /\ lastOp.n = 1
    /\ now = MsPerMinute + StepMs
    /\ \A tm \in LoopTimer : tm.elapsed = 0 /\ Len(tm.active) = 1
    /\ \E j \in Sent("a", 5) : dispatched[j].due = WholeDue(12)
    /\ "b" \in deletedIds

----------------------------------------------------------------------------
(* The stored history: the task handlers and the import write HISTORY_STORAGE_KEY *)

\* the lengths of data.history in the backup files read
FileHistories == {0, 1, 499, 600}

HistoryFiles == { <<>>, <<Task("b", Null, TRUE)>> }

\* the lengths of the history stored when the page is loaded: close to the limit
StoredHistories == {497, 498}

InitHistory == \E h \in StoredHistories : LoadedWith(<<Task("a", Null, FALSE)>>, h)

NextHistory ==
    \/ Effect(MaxDispatched, {Works})
    \/ addTask(Null)
    \/ updateTask("a", Null)
    \/ \E id \in Ids : toggleComplete(id)
    \/ \E id \in Ids : deleteTask(id)
    \/ clearCompleted
    \/ \E file \in HistoryFiles, h \in FileHistories : ReadAsText(file, h)
    \/ Onload

SpecHistory == InitHistory /\ [][NextHistory]_vars

\* C28: whatever task operations and imports have run, the stored history has at most
\* 500 entries.
C28_HistoryBounded == history <= 500

\* the history is full after a task was completed or re-opened, and a backup with a
\* history of 600 entries was imported before
C28_Witness ==
    /\ history = 500 /\ lastOp.op = "toggleComplete"
    /\ \E i \in DOMAIN tasks : tasks[i].id = "b"

----------------------------------------------------------------------------
(* The service worker (src/public/sw.js): install and activate. Every promise of the
   two handlers settles in a step of its own. *)

CACHE_NAME == "chronotask-pro-v1.2.0"

urlsToCache ==
    { "/", "/index.html", "/static/js/bundle.js", "/static/css/main.css",
      "/manifest.json", "/icons/icon-192.png", "/icons/icon-512.png" }

\* the caches an earlier version of the worker, or other code of the origin, left
OldCaches == { "chronotask-pro-v1.1.0", "chronotask-pro-v1.0.0" }

StoredCaches ==
    { [name \in names |-> IF name = CACHE_NAME THEN {"/"} ELSE {"/", "/index.html"}] :
        names \in SUBSET (OldCaches \cup {CACHE_NAME}) }

InitWorker == PageLoaded(<<>>, 0) /\ worker = Parsed /\ cacheStorage \in StoredCaches

\* caches.open(name): the cache is made when there is none of the name
Open(storage, name) ==
    [n \in DOMAIN storage \cup {name} |-> IF n \in DOMAIN storage THEN storage[n] ELSE {}]

\* the install event: event.waitUntil(caches.open(CACHE_NAME)...)
Install ==
    /\ worker.state = "parsed"
    /\ worker' = [worker EXCEPT !.state = "installing", !.step = "open"]
    /\ UNCHANGED <<cacheStorage, appVars>>

\* caches.open(CACHE_NAME) resolves
InstallOpened ==
    /\ worker.state = "installing" /\ worker.step = "open"
    /\ cacheStorage' = Open(cacheStorage, CACHE_NAME)
    /\ worker' = [worker EXCEPT !.step = "addAll"]
    /\ UNCHANGED appVars

\* cache.addAll(urlsToCache) settles: it stores every response, or, when a request of
\* failed fails or is answered with an error status, stores nothing and rejects
AddAll(failed) ==
    /\ worker.state = "installing" /\ worker.step = "addAll"
    /\ IF failed = {}
       THEN /\ cacheStorage' = [cacheStorage EXCEPT ![CACHE_NAME] = @ \cup urlsToCache]
            /\ worker' = [worker EXCEPT !.step = "skipWaiting"]
       ELSE /\ cacheStorage' = cacheStorage
            /\ worker' = [worker EXCEPT !.step = "catch"]
    /\ UNCHANGED appVars

\* .catch((error) => { console.log(...) }): the promise given to waitUntil is fulfilled
Caught(step) == "fulfilled"

\* .then(() => self.skipWaiting()) after a fulfilled addAll, .catch(...) after a rejected
InstallSettles ==
    /\ worker.state = "installing" /\ worker.step \in {"skipWaiting", "catch"}
    /\ worker' = [worker EXCEPT
                    !.step = IF worker.step = "catch" THEN Caught(worker.step)
                             ELSE "fulfilled"]
    /\ UNCHANGED <<cacheStorage, appVars>>

\* the browser ends the installation: installed when the promise given to waitUntil was
\* fulfilled, redundant when it rejected
Installed ==
    /\ worker.state = "installing" /\ worker.step \in {"fulfilled", "rejected"}
    /\ worker' = [worker EXCEPT
                    !.state = IF worker.step = "fulfilled" THEN "installed" ELSE "redundant",
                    !.step = "idle"]
    /\ UNCHANGED <<cacheStorage, appVars>>

\* the activate event: event.waitUntil(caches.keys()...)
Activate ==
    /\ worker.state = "installed"
    /\ worker' = [worker EXCEPT !.state = "activating", !.step = "keys"]
    /\ UNCHANGED <<cacheStorage, appVars>>

\* caches.keys() resolves and cacheNames.map(...) calls caches.delete for every other name
KeysResolved ==
    /\ worker.state = "activating" /\ worker.step = "keys"
    /\ worker' = [worker EXCEPT !.step = "deleting",
                                !.keys = DOMAIN cacheStorage,
                                !.pending = DOMAIN cacheStorage \ {CACHE_NAME}]
    /\ UNCHANGED <<cacheStorage, appVars>>

\* one caches.delete(cacheName) resolves
Deleted(name) ==
    /\ name \in worker.pending
    /\ cacheStorage' = [n \in DOMAIN cacheStorage \ {name} |-> cacheStorage[n]]
    /\ worker' = [worker EXCEPT !.pending = @ \ {name}]
    /\ UNCHANGED appVars

\* mutant: clients.claim() does not wait for the deletions
AllSettled_AtOnce(pending) == TRUE

\* Promise.all(...) is fulfilled when every caches.delete has resolved
AllSettled(pending) == pending = {}

\* .then(() => self.clients.claim())
Claim ==
    /\ worker.state = "activating" /\ worker.step = "deleting"
    /\ AllSettled(worker.pending)
    /\ worker' = [worker EXCEPT !.step = "claimed", !.claimed = TRUE]
    /\ UNCHANGED <<cacheStorage, appVars>>

\* clients.claim() resolves, and with it the promise given to waitUntil
Activated ==
    /\ worker.state = "activating" /\ worker.step = "claimed"
    /\ worker' = [worker EXCEPT !.state = "activated", !.step = "idle"]
    /\ UNCHANGED <<cacheStorage, appVars>>

\* the fetch handler, for a GET request that no cache matches and the network answers
\* with a basic 200 response: caches.open(CACHE_NAME).then((cache) => cache.put(...))
FetchPut(url) ==
    /\ worker.state = "activated"
    /\ \A name \in DOMAIN cacheStorage : url \notin cacheStorage[name]
    /\ cacheStorage' = [Open(cacheStorage, CACHE_NAME) EXCEPT ![CACHE_NAME] = @ \cup {url}]
    /\ UNCHANGED <<worker, appVars>>

NextWorker ==
    \/ Install
    \/ InstallOpened
    \/ \E failed \in SUBSET {"/static/js/bundle.js", "/icons/icon-512.png"} : AddAll(failed)
    \/ InstallSettles
    \/ Installed
    \/ Activate
    \/ KeysResolved
    \/ \E name \in OldCaches : Deleted(name)
    \/ Claim
    \/ Activated
    \/ \E url \in {"/favicon.ico", "/static/media/logo.svg"} : FetchPut(url)

SpecWorker == InitWorker /\ [][NextWorker]_vars

C30_InstalledMeansCached ==
    worker.state \in {"installed", "activating", "activated"} =>
        /\ CACHE_NAME \in DOMAIN cacheStorage
        /\ urlsToCache \subseteq cacheStorage[CACHE_NAME]

\* what the code does: the worker is installed whatever became of addAll; the URLs are
\* all cached when addAll was fulfilled and the cache is as it was found when not
C30_InstalledAnyway ==
    /\ [](worker.state # "redundant")
    /\ [][ (worker'.state = "installed" /\ worker.state = "installing") =>
             worker.step = "fulfilled" ]_vars

====
